---- MODULE Spec2Model ----
(***************************************************************************)
(* Model of framework/wazuh/agent.py: the bulk operations over agents and  *)
(* groups (restart_agents, delete_agents, delete_groups,                   *)
(* assign_agents_to_group, remove_agents_from_group,                       *)
(* remove_agents_from_all_groups).  One call is followed from its          *)
(* pre-checks through every iteration of its loop to its return or to the  *)
(* exception that leaves it.  The per-target primitives of                 *)
(* wazuh.core.core_agent and the agent query are collaborators: their      *)
(* outcome is a nondeterministic choice among success, a WazuhError, a     *)
(* WazuhInternalError and an exception outside the WazuhException          *)
(* hierarchy.                                                              *)
(***************************************************************************)
EXTENDS Integers, Sequences, FiniteSets, TLC

\* Longest target list tried.
MaxLen == 3

\* Agent identifiers: "000" is the manager; identifiers are zero-padded to
\* three digits and grow past them, so "1000" > "999" numerically while
\* "1000" < "999" as text.
AgentIds == {"000", "999", "1000"}

\* Group names handed to the operations; "default" is the reserved group.
GroupIds == {"default", "g1", "g2"}

\* Error codes raised by agent.py itself.
ReservedIdCode == 1703
NotEligibleCode == 1731
GroupNotFoundCode == 1710
NotMemberCode == 1734

\* ---------------------------------------------------------------- errors

Ok == [kind |-> "ok", code |-> 0]
WazuhError(c) == [kind |-> "WazuhError", code |-> c]
WazuhInternalError(c) == [kind |-> "WazuhInternalError", code |-> c]
\* An exception that is no WazuhException (OSError, sqlite3.Error, ...).
RawException == [kind |-> "Exception", code |-> 0]

\* What a collaborator may throw whatever the state of the store: an internal
\* error of the shared registry, or an unexpected exception.
InfraFaults == {WazuhInternalError(1000), RawException}

\* `except WazuhException as e`: WazuhError and WazuhInternalError are caught,
\* anything else leaves the function.
Caught(e) == e.kind \in {"WazuhError", "WazuhInternalError"}

\* {'id': id, 'error': {'code': e.code, ...}}
create_exception_dic(id, e) == [id |-> id, code |-> e.code]

\* ------------------------------------------------------------- sequences

Range(s) == {s[k] : k \in 1..Len(s)}

SeqsUpTo(S, n) == UNION {[1..k -> S] : k \in 1..n}

RECURSIVE Without(_, _)
\* list.remove of every occurrence of x (membership lists hold no duplicates)
Without(s, x) ==
    IF s = <<>> THEN <<>>
    ELSE IF Head(s) = x THEN Without(Tail(s), x)
    ELSE <<Head(s)>> \o Without(Tail(s), x)

\* key=int of sorted(affected_agents, key=int): the decimal digits of an id
Digits(id) ==
    CASE id = "000" -> <<0, 0, 0>>
      [] id = "999" -> <<9, 9, 9>>
      [] id = "1000" -> <<1, 0, 0, 0>>

RECURSIVE DigitsValue(_)
DigitsValue(d) ==
    IF d = <<>> THEN 0
    ELSE 10 * DigitsValue(SubSeq(d, 1, Len(d) - 1)) + d[Len(d)]

IntOf(id) == DigitsValue(Digits(id))

RECURSIVE TextLeq(_, _)
\* a <= b as Python compares the strings, character by character
TextLeq(a, b) ==
    IF a = <<>> THEN TRUE
    ELSE IF b = <<>> THEN FALSE
    ELSE IF Head(a) < Head(b) THEN TRUE
    ELSE IF Head(a) > Head(b) THEN FALSE
    ELSE TextLeq(Tail(a), Tail(b))

RECURSIVE SortedByText(_)
\* Mutant of SortedByInt: key=int forgotten, sorted(S) orders the strings.
SortedByText(S) ==
    IF S = {} THEN <<>>
    ELSE LET m == CHOOSE x \in S : \A y \in S : TextLeq(Digits(x), Digits(y))
         IN  <<m>> \o SortedByText(S \ {m})

RECURSIVE SortedByInt(_)
\* sorted(S, key=int)
SortedByInt(S) ==
    IF S = {} THEN <<>>
    ELSE LET m == CHOOSE x \in S : \A y \in S : IntOf(x) <= IntOf(y)
         IN  <<m>> \o SortedByInt(S \ {m})

\* ------------------------------------------------------------ the store

\* The stores a call may start from: which agents are registered, which
\* groups exist, and every agent's ordered membership list (<<>> for an
\* identifier that is not registered).
Stores ==
    { [agents |-> AgentIds, groups |-> GroupIds,
       membership |-> ("000" :> <<"g1">> @@ "999" :> <<"g1">>
                        @@ "1000" :> <<"g1", "g2">>)],
      [agents |-> {"000", "999"}, groups |-> {"default", "g1"},
       membership |-> ("000" :> <<"default">> @@ "999" :> <<"default", "g1">>
                        @@ "1000" :> <<>>)],
      [agents |-> AgentIds, groups |-> GroupIds,
       membership |-> ("000" :> <<"default">> @@ "999" :> <<"g2", "g1">>
                        @@ "1000" :> <<"g2">>)] }

\* ----------------------------------------------- collaborators' outcomes

\* Agent(id).restart(): the manager is never restarted through this path.
Agent_restart(id) ==
    IF id = "000" THEN {WazuhError(ReservedIdCode)}
    ELSE {Ok, WazuhError(1707)} \cup InfraFaults

\* Agent(id).load_info_from_db() / get_basic_information(): not-found for an
\* identifier the store does not hold.
Agent_load_info_from_db(id, agents) ==
    IF id \notin agents THEN {WazuhError(1701)}
    ELSE {Ok} \cup InfraFaults

\* Agent(id).remove(backup, purge)
Agent_remove(id) == {Ok} \cup InfraFaults

\* Agent.group_exists(group_id)
Agent_group_exists(g, groups) == g \in groups

\* Agent.delete_single_group(group_id): "default" is reserved.
Agent_delete_single_group(g, groups) ==
    IF g = "default" THEN {WazuhError(1712)}
    ELSE IF g \notin groups THEN {WazuhError(GroupNotFoundCode)}
    ELSE {Ok} \cup InfraFaults

\* Agent.remove_multi_group(groups)
Agent_remove_multi_group(g) == {Ok} \cup InfraFaults

\* Agent.add_group_to_agent(agent_id, group_id, replace)
Agent_add_group_to_agent(id, agents) ==
    IF id \notin agents THEN {WazuhError(1701)}
    ELSE {Ok} \cup InfraFaults

\* Agent.unset_single_group_agent(agent_id, group_id, force=False)
Agent_unset_single_group_agent(id, g, agents, membership) ==
    IF id \notin agents THEN {WazuhError(1701)}
    ELSE IF g \notin Range(membership[id]) THEN {WazuhError(NotMemberCode)}
    ELSE {Ok} \cup InfraFaults

\* Agent.set_agent_group_file(agent_id, 'default')
Agent_set_agent_group_file(id) == {Ok} \cup InfraFaults

\* The membership list of one agent after group g is taken from it: an agent
\* is never left without a group.
DropGroup(m, g) ==
    IF Without(m, g) = <<>> THEN <<"default">> ELSE Without(m, g)

\* The agents delete_single_group touches: those that list g.
MembersOf(g, agents, membership) ==
    {a \in agents : g \in Range(membership[a])}

\* Memberships after delete_single_group(g).
CascadeDelete(g, agents, membership) ==
    [a \in AgentIds |->
        IF a \in MembersOf(g, agents, membership)
        THEN DropGroup(membership[a], g) ELSE membership[a]]

\* Memberships after add_group_to_agent(id, g, replace).
AddGroup(m, g, replace) ==
    IF replace THEN <<g>>
    ELSE IF g \in Range(m) THEN m
    ELSE Append(m, g)

\* WazuhDBQueryAgents(filters={'id': agent_list}, query='group=<g>').run():
\* the ids among the targets that list g.
QueryAgentsInGroup(l, g, agents, membership) ==
    {a \in Range(l) \cap agents : g \in Range(membership[a])}

\* WazuhDBQueryAgents(filters={'older_than', 'status', 'id': agent_list}).run():
\* some registered agents among the targets, whichever the store finds old
\* enough and in the asked status.
QueryPurgeable(l, agents) == SUBSET (Range(l) \cap agents)

\* ------------------------------------------------------------- the state

VARIABLES
    op,               \* the bulk operation called ("none" before the call)
    pc,               \* "idle", "loop", "returned" or "raised"
    targets,          \* agent_list / group_list
    group_id,         \* the group argument ("" where there is none)
    flag,             \* replace (assign_agents_to_group) / force (remove_agents_from_all_groups)
    i,                \* how many targets the loop has taken
    affected_items,   \* affected_agents / affected_groups of the function
    failed_items,     \* failed_ids / failed_groups
    affected_agents,  \* delete_groups' set of touched agents
    snapshot,         \* id_purgeable_agents / agents_in_group, computed before the loop
    calls,            \* every primitive invoked so far: [prim, id, out]
    raised,           \* the exception that left the function (Ok when none)
    result,           \* the returned dictionary (NoResult before the return)
    agentsDB,         \* registered agents
    groupsDB,         \* existing groups
    agentGroups,      \* every agent's membership list
    store0            \* the store as the call found it

vars == <<op, pc, targets, group_id, flag, i, affected_items, failed_items,
          affected_agents, snapshot, calls, raised, result, agentsDB, groupsDB,
          agentGroups, store0>>

TargetLists == SeqsUpTo(AgentIds, MaxLen)
GroupLists == SeqsUpTo(GroupIds, MaxLen)

NoResult == [returned |-> FALSE]

Init ==
    /\ op = "none"
    /\ pc = "idle"
    /\ targets = <<>>
    /\ group_id = ""
    /\ flag = FALSE
    /\ i = 0
    /\ affected_items = <<>>
    /\ failed_items = <<>>
    /\ affected_agents = {}
    /\ snapshot = {}
    /\ calls = <<>>
    /\ raised = Ok
    /\ result = NoResult
    /\ store0 \in Stores
    /\ agentsDB = store0.agents
    /\ groupsDB = store0.groups
    /\ agentGroups = store0.membership

\* The three summary messages of an operation, as the function lists them.
str_priority(o) ==
    CASE o = "restart_agents" ->
           <<"Restart command sent to all agents",
             "Could not send command to some agents",
             "Could not send command to any agent">>
      [] o = "delete_agents" ->
           <<"All selected agents were deleted",
             "Some agents were not deleted",
             "No agents were deleted">>
      [] o = "delete_groups" ->
           <<"All selected groups were deleted",
             "Some groups were not deleted",
             "No groups were deleted">>
      [] o = "assign_agents_to_group" ->
           <<"All selected agents were assigned to the group",
             "Some agents were not assigned to the group",
             "No agents assigned to the group">>
      [] o = "remove_agents_from_group" ->
           <<"All selected agents were removed from the group",
             "Some agents were not removed from the group",
             "No agents removed from the group">>
      [] o = "remove_agents_from_all_groups" ->
           <<"All selected agents were removed from all groups",
             "Some agents were not removed from all groups",
             "No agents removed from all groups">>

\* The dictionary a bulk operation returns.
Result(o, aff, fl, ag) ==
    [returned |-> TRUE,
     affected_items |-> aff,
     failed_items |-> fl,
     affected_agents |-> SortedByInt(ag),
     str_priority |-> str_priority(o)]

\* Mutants of RecordAffected: the append forgotten; the id put in front.
RecordAffected_Skip(aff, id) == aff

RecordAffected_Prepend(aff, id) == <<id>> \o aff

\* affected_agents.append(agent_id)
RecordAffected(aff, id) == Append(aff, id)

\* Mutant of RecordFailed: the exception swallowed (`except: pass`).
RecordFailed_Swallow(fl, id, e) == fl

\* failed_ids.append(create_exception_dic(agent_id, e))
RecordFailed(fl, id, e) == Append(fl, create_exception_dic(id, e))

\* Mutant of UpdateAffectedAgents: the update forgotten.
UpdateAffectedAgents_Skip(ag, removed) == ag

\* affected_agents.update(removed['affected_items'])
UpdateAffectedAgents(ag, removed) == ag \cup removed

\* One primitive invocation, for the record of what the loop did.
Call(prim, id, out) == [prim |-> prim, id |-> id, out |-> out]

\* What one pass through a try block leaves: the exception e it ended with (Ok
\* when it ran to its end) and the lists and store as it left them.
Attempt(e, aff, ag, A, G, M, cl) ==
    [e |-> e, aff |-> aff, ag |-> ag, agents |-> A, groups |-> G,
     membership |-> M, calls |-> cl]

\* The entry of a function up to its loop: the arguments are bound, the lists
\* are empty, `snap` is what the query before the loop returned.
Enter(o, l, g, f, snap) ==
    /\ pc = "idle"
    /\ op' = o
    /\ targets' = l
    /\ group_id' = g
    /\ flag' = f
    /\ snapshot' = snap
    /\ pc' = "loop"
    /\ UNCHANGED <<i, affected_items, failed_items, affected_agents, calls,
                   raised, result, agentsDB, groupsDB, agentGroups, store0>>

\* An exception raised before the loop leaves the function.
Fail(o, l, g, f, e) ==
    /\ pc = "idle"
    /\ op' = o
    /\ targets' = l
    /\ group_id' = g
    /\ flag' = f
    /\ raised' = e
    /\ pc' = "raised"
    /\ UNCHANGED <<i, affected_items, failed_items, affected_agents, snapshot,
                   calls, result, agentsDB, groupsDB, agentGroups, store0>>

\* The end of one iteration: `except WazuhException` turns a caught exception
\* into a failed entry and the loop goes on; any other exception leaves the
\* function; after the last target the result is returned.
Finish(r) ==
    LET agent_id == targets[i + 1]
        fl == IF Caught(r.e) THEN RecordFailed(failed_items, agent_id, r.e)
              ELSE failed_items
    IN  /\ i' = i + 1
        /\ affected_items' = r.aff
        /\ affected_agents' = r.ag
        /\ agentsDB' = r.agents
        /\ groupsDB' = r.groups
        /\ agentGroups' = r.membership
        /\ calls' = r.calls
        /\ IF r.e = Ok \/ Caught(r.e)
           THEN /\ failed_items' = fl
                /\ raised' = raised
                /\ IF i + 1 = Len(targets)
                   THEN /\ pc' = "returned"
                        /\ result' = Result(op, r.aff, fl, r.ag)
                   ELSE /\ pc' = "loop"
                        /\ result' = result
           ELSE /\ failed_items' = failed_items
                /\ raised' = r.e
                /\ pc' = "raised"
                /\ result' = result
        /\ UNCHANGED <<op, targets, group_id, flag, snapshot, store0>>

\* ------------------------------------------------------- restart_agents

Call_restart_agents ==
    /\ pc = "idle"
    /\ \E l \in TargetLists : Enter("restart_agents", l, "", FALSE, {})

\* try: Agent(agent_id).restart(); affected_agents.append(agent_id)
restart_agents_try(agent_id) ==
    { Attempt(e,
              IF e = Ok THEN RecordAffected(affected_items, agent_id)
              ELSE affected_items,
              affected_agents, agentsDB, groupsDB, agentGroups,
              Append(calls, Call("restart", agent_id, e)))
      : e \in Agent_restart(agent_id) }

Step_restart_agents ==
    /\ pc = "loop"
    /\ op = "restart_agents"
    /\ \E r \in restart_agents_try(targets[i + 1]) : Finish(r)

\* -------------------------------------------------------- delete_agents

\* Mutant of IsManager: no identifier is taken for the manager's.
IsManager_Never(agent_id) == FALSE

\* if agent_id == "000"
IsManager(agent_id) == agent_id = "000"

\* Mutant of NotPurgeable: the eligibility test left out.
NotPurgeable_Never(agent_id, id_purgeable_agents) == FALSE

\* if agent_id not in id_purgeable_agents
NotPurgeable(agent_id, id_purgeable_agents) ==
    agent_id \notin id_purgeable_agents

Call_delete_agents ==
    /\ pc = "idle"
    /\ \E l \in TargetLists :
           \/ \E snap \in QueryPurgeable(l, agentsDB) :
                  Enter("delete_agents", l, "", FALSE, snap)
           \/ \E e \in InfraFaults : Fail("delete_agents", l, "", FALSE, e)

\* The try block of delete_agents: the reserved id, then the load, then the
\* eligibility test against the list computed before the loop, then the removal.
delete_agents_try(agent_id) ==
    IF IsManager(agent_id)
    THEN { Attempt(WazuhError(ReservedIdCode), affected_items, affected_agents,
                   agentsDB, groupsDB, agentGroups, calls) }
    ELSE UNION {
           LET cl1 == Append(calls, Call("load_info_from_db", agent_id, e1))
           IN  IF e1 # Ok
               THEN { Attempt(e1, affected_items, affected_agents, agentsDB,
                              groupsDB, agentGroups, cl1) }
               ELSE IF NotPurgeable(agent_id, snapshot)
               THEN { Attempt(WazuhError(NotEligibleCode), affected_items,
                              affected_agents, agentsDB, groupsDB, agentGroups,
                              cl1) }
               ELSE { LET cl2 == Append(cl1, Call("remove", agent_id, e2))
                      IN  IF e2 = Ok
                          THEN Attempt(Ok,
                                       RecordAffected(affected_items, agent_id),
                                       affected_agents,
                                       agentsDB \ {agent_id}, groupsDB,
                                       [agentGroups EXCEPT ![agent_id] = <<>>],
                                       cl2)
                          ELSE Attempt(e2, affected_items, affected_agents,
                                       agentsDB, groupsDB, agentGroups, cl2)
                      : e2 \in Agent_remove(agent_id) }
           : e1 \in Agent_load_info_from_db(agent_id, agentsDB) }

Step_delete_agents ==
    /\ pc = "loop"
    /\ op = "delete_agents"
    /\ \E r \in delete_agents_try(targets[i + 1]) : Finish(r)

\* -------------------------------------------------------- delete_groups

Call_delete_groups ==
    /\ pc = "idle"
    /\ \E l \in GroupLists : Enter("delete_groups", l, "", FALSE, {})

\* The try block of delete_groups: the group is appended to affected_groups
\* and its agents added to affected_agents before remove_multi_group runs.
delete_groups_try(g) ==
    UNION {
      LET cl1 == Append(calls, Call("delete_single_group", g, e1))
      IN  IF e1 # Ok
          THEN { Attempt(e1, affected_items, affected_agents, agentsDB,
                         groupsDB, agentGroups, cl1) }
          ELSE LET removed == MembersOf(g, agentsDB, agentGroups)
               IN  { Attempt(e2,
                             RecordAffected(affected_items, g),
                             UpdateAffectedAgents(affected_agents, removed),
                             agentsDB, groupsDB \ {g},
                             CascadeDelete(g, agentsDB, agentGroups),
                             Append(cl1, Call("remove_multi_group", g, e2)))
                     : e2 \in Agent_remove_multi_group(g) }
      : e1 \in Agent_delete_single_group(g, groupsDB) }

Step_delete_groups ==
    /\ pc = "loop"
    /\ op = "delete_groups"
    /\ \E r \in delete_groups_try(targets[i + 1]) : Finish(r)

\* ----------------------------------------------- assign_agents_to_group

\* Mutant of GroupMissing: the existence check left out.
GroupMissing_Never(g, groups) == FALSE

\* if not Agent.group_exists(group_id): raise WazuhError(1710)
GroupMissing(g, groups) == ~Agent_group_exists(g, groups)

Call_assign_agents_to_group ==
    /\ pc = "idle"
    /\ \E l \in TargetLists, g \in GroupIds, replace \in BOOLEAN :
           IF GroupMissing(g, groupsDB)
           THEN Fail("assign_agents_to_group", l, g, replace,
                     WazuhError(GroupNotFoundCode))
           ELSE Enter("assign_agents_to_group", l, g, replace, {})

assign_agents_to_group_try(agent_id) ==
    { LET cl == Append(calls, Call("add_group_to_agent", agent_id, e))
      IN  IF e = Ok
          THEN Attempt(Ok, RecordAffected(affected_items, agent_id),
                       affected_agents, agentsDB, groupsDB,
                       [agentGroups EXCEPT
                          ![agent_id] = AddGroup(@, group_id, flag)],
                       cl)
          ELSE Attempt(e, affected_items, affected_agents, agentsDB,
                       groupsDB, agentGroups, cl)
      : e \in Agent_add_group_to_agent(agent_id, agentsDB) }

Step_assign_agents_to_group ==
    /\ pc = "loop"
    /\ op = "assign_agents_to_group"
    /\ \E r \in assign_agents_to_group_try(targets[i + 1]) : Finish(r)

\* --------------------------------------------- remove_agents_from_group

\* Mutant of NotInGroup: the membership test left out.
NotInGroup_Never(agent_id, agent_list, agents_in_group) == FALSE

\* if agent_id in set(agent_list) - agents_in_group
NotInGroup(agent_id, agent_list, agents_in_group) ==
    agent_id \in Range(agent_list) \ agents_in_group

Call_remove_agents_from_group ==
    /\ pc = "idle"
    /\ \E l \in TargetLists, g \in GroupIds :
           \/ /\ GroupMissing(g, groupsDB)
              /\ Fail("remove_agents_from_group", l, g, FALSE,
                      WazuhError(GroupNotFoundCode))
           \/ /\ ~GroupMissing(g, groupsDB)
              /\ Enter("remove_agents_from_group", l, g, FALSE,
                       QueryAgentsInGroup(l, g, agentsDB, agentGroups))
           \/ /\ ~GroupMissing(g, groupsDB)
              /\ \E e \in InfraFaults :
                     Fail("remove_agents_from_group", l, g, FALSE, e)

\* The try block of remove_agents_from_group: the reserved id is looked at
\* only for a target the membership query did not return.
remove_agents_from_group_try(agent_id) ==
    IF NotInGroup(agent_id, targets, snapshot)
    THEN { Attempt(IF IsManager(agent_id) THEN WazuhError(ReservedIdCode)
                   ELSE WazuhError(NotMemberCode),
                   affected_items, affected_agents, agentsDB, groupsDB,
                   agentGroups, calls) }
    ELSE { LET cl == Append(calls,
                            Call("unset_single_group_agent", agent_id, e))
           IN  IF e = Ok
               THEN Attempt(Ok, RecordAffected(affected_items, agent_id),
                            affected_agents, agentsDB, groupsDB,
                            [agentGroups EXCEPT
                               ![agent_id] = DropGroup(@, group_id)],
                            cl)
               ELSE Attempt(e, affected_items, affected_agents, agentsDB,
                            groupsDB, agentGroups, cl)
           : e \in Agent_unset_single_group_agent(agent_id, group_id,
                                                  agentsDB, agentGroups) }

Step_remove_agents_from_group ==
    /\ pc = "loop"
    /\ op = "remove_agents_from_group"
    /\ \E r \in remove_agents_from_group_try(targets[i + 1]) : Finish(r)

\* ---------------------------------------- remove_agents_from_all_groups

Call_remove_agents_from_all_groups ==
    /\ pc = "idle"
    /\ \E l \in TargetLists, force \in BOOLEAN :
           Enter("remove_agents_from_all_groups", l, "", force, {})

\* Agent.set_agent_group_file(agent_id, 'default') and the append that follows
reset_to_default(agent_id, cl) ==
    { LET cl2 == Append(cl, Call("set_agent_group_file", agent_id, e))
      IN  IF e = Ok
          THEN Attempt(Ok, RecordAffected(affected_items, agent_id),
                       affected_agents, agentsDB, groupsDB,
                       [agentGroups EXCEPT ![agent_id] = <<"default">>], cl2)
          ELSE Attempt(e, affected_items, affected_agents, agentsDB,
                       groupsDB, agentGroups, cl2)
      : e \in Agent_set_agent_group_file(agent_id) }

remove_agents_from_all_groups_try(agent_id) ==
    IF IsManager(agent_id)
    THEN { Attempt(WazuhError(ReservedIdCode), affected_items, affected_agents,
                   agentsDB, groupsDB, agentGroups, calls) }
    ELSE IF flag
    THEN reset_to_default(agent_id, calls)
    ELSE UNION {
           LET cl1 == Append(calls,
                             Call("get_basic_information", agent_id, e1))
           IN  IF e1 # Ok
               THEN { Attempt(e1, affected_items, affected_agents, agentsDB,
                              groupsDB, agentGroups, cl1) }
               ELSE reset_to_default(agent_id, cl1)
           : e1 \in Agent_load_info_from_db(agent_id, agentsDB) }

Step_remove_agents_from_all_groups ==
    /\ pc = "loop"
    /\ op = "remove_agents_from_all_groups"
    /\ \E r \in remove_agents_from_all_groups_try(targets[i + 1]) : Finish(r)

\* ------------------------------------------------------ the specification

Next ==
    \/ Call_restart_agents
    \/ Step_restart_agents
    \/ Call_delete_agents
    \/ Step_delete_agents
    \/ Call_delete_groups
    \/ Step_delete_groups
    \/ Call_assign_agents_to_group
    \/ Step_assign_agents_to_group
    \/ Call_remove_agents_from_group
    \/ Step_remove_agents_from_group
    \/ Call_remove_agents_from_all_groups
    \/ Step_remove_agents_from_all_groups

Spec == Init /\ [][Next]_vars

\* ------------------------------------------------ get_agents_sync_group

\* Longest agent_list handed to get_agents_sync_group, and how many calls in
\* a row are followed.
MaxSyncLen == 1
MaxCalls == 2

\* raise WazuhInternalError(1739, ...)
SyncErrorCode == 1739

SyncLists == SeqsUpTo(AgentIds, MaxSyncLen)

\* open() failing inside md5(); a key the record does not hold.
IOError == [kind |-> "IOError", code |-> 0]
KeyError == [kind |-> "KeyError", code |-> 0]

\* Mutant of JoinGroups: the group names sorted before the join.
JoinGroups_Sorted(group) ==
    IF Len(group) = 2 /\ group[1] = "g2" /\ group[2] = "g1" THEN "g1,g2"
    ELSE IF Len(group) = 2 THEN group[1] \o "," \o group[2]
    ELSE group[1]

RECURSIVE JoinGroups(_)
\* ','.join(agent_info['group']): the names in the record's own order
JoinGroups(group) ==
    IF Len(group) = 1 THEN group[1]
    ELSE group[1] \o "," \o JoinGroups(Tail(group))

\* hashlib.sha256(s.encode()).hexdigest()[:8], for the joins that occur
Sha256Prefix8(s) ==
    CASE s = "g1,g2" -> "2d5e0a32"
      [] s = "g2,g1" -> "d49cece6"
      [] s = "default,g1" -> "7f8154fe"
      [] s = "g1,default" -> "7fd5c3de"

\* common.multi_groups_path, common.shared_path
multi_groups_path == "/var/ossec/var/multigroups"
shared_path == "/var/ossec/etc/shared"

\* path.join(a, b, "merged.mg")
path_join(a, b, c) == a \o "/" \o b \o "/" \o c

\* if len(agent_info['group']) > 1
IsMultiGroup(group) == Len(group) > 1

\* The merged file get_agents_sync_group reads for a membership list.
agent_group_merged_path(group) ==
    IF IsMultiGroup(group)
    THEN path_join(multi_groups_path, Sha256Prefix8(JoinGroups(group)),
                   "merged.mg")
    ELSE path_join(shared_path, group[1], "merged.mg")

\* The membership lists the agents of the sync stores have.
GroupOrders == {<<"g1">>, <<"g1", "g2">>, <<"g2", "g1">>}

SyncPaths == {agent_group_merged_path(g) : g \in GroupOrders}

\* A merged file: not there, there but not readable, or there with the md5
\* of its content.
FileStates ==
    { [kind |-> "absent", md5 |-> ""], [kind |-> "unreadable", md5 |-> ""],
      [kind |-> "file", md5 |-> "abc123"], [kind |-> "file", md5 |-> "def456"] }

\* What get_basic_information returns for an agent: a dictionary that holds
\* 'group' and 'mergedSum' only when the agent has them.
InfoRecords ==
    {[group |-> g, mergedSum |-> "abc123"] : g \in GroupOrders}
    \cup {[group |-> g] : g \in GroupOrders}
    \cup {[mergedSum |-> "abc123"]}

\* The record the store holds for the manager itself.
ManagerInfo == "000" :> [group |-> <<"g1">>, mergedSum |-> "abc123"]

\* The records of the registered agents: the manager, "999" with any
\* record, "1000" not registered or with a two-group record.
SyncInfos ==
    {ManagerInfo @@ "999" :> r : r \in InfoRecords}
    \cup {ManagerInfo @@ "999" :> r
             @@ "1000" :> [group |-> <<"g1", "g2">>, mergedSum |-> "abc123"]
          : r \in InfoRecords}

\* The membership list the store holds for an agent of `info`.
StoredGroups(info, a) ==
    IF a \in DOMAIN info /\ "group" \in DOMAIN info[a] THEN info[a].group
    ELSE <<>>

\* The stores and file trees a sync call may find.
SyncStores ==
    { [agents |-> DOMAIN info,
       groups |-> GroupIds,
       membership |-> [a \in AgentIds |-> StoredGroups(info, a)],
       info |-> info,
       files |-> files]
      : info \in SyncInfos, files \in [SyncPaths -> FileStates] }

InitSync ==
    /\ op = "none"
    /\ pc = "idle"
    /\ targets = <<>>
    /\ group_id = ""
    /\ flag = FALSE
    /\ i = 0
    /\ affected_items = <<>>
    /\ failed_items = <<>>
    /\ affected_agents = {}
    /\ snapshot = {}
    /\ calls = <<>>
    /\ raised = Ok
    /\ result = NoResult
    /\ store0 \in SyncStores
    /\ agentsDB = store0.agents
    /\ groupsDB = store0.groups
    /\ agentGroups = store0.membership

\* md5(path): the digest of the file, or IOError from open()
md5(path, files) ==
    IF files[path].kind = "file"
    THEN [e |-> Ok, digest |-> files[path].md5]
    ELSE [e |-> IOError, digest |-> ""]

\* How a pass through the function ends: a returned dictionary or a raised
\* exception, with what was done on the way (whether the record was loaded,
\* which file was opened).
SyncReturn(synced, load, path) ==
    [kind |-> "return", synced |-> synced, exc |-> Ok, load |-> load,
     path |-> path]
SyncRaise(e, load, path) ==
    [kind |-> "raise", synced |-> FALSE, exc |-> e, load |-> load,
     path |-> path]

\* The record was not asked for.
NotCalled == [kind |-> "not called", code |-> 0]

\* Mutant of SoftFail: only KeyError is taken for "not synced".
SoftFail_KeyErrorOnly(e) == e.kind = "KeyError"

\* except (IOError, KeyError): return {'synced': False}
SoftFail(e) == e.kind \in {"IOError", "KeyError"}

\* except WazuhError as e: raise e
Reraised(e) == e.kind = "WazuhError"

\* The except clauses of get_agents_sync_group, in their order.
sync_except(e, load, path) ==
    IF SoftFail(e) THEN SyncReturn(FALSE, load, path)
    ELSE IF Reraised(e) THEN SyncRaise(e, load, path)
    ELSE SyncRaise(WazuhInternalError(SyncErrorCode), load, path)

\* md5(agent_group_merged_path) == agent_info['mergedSum']
SyncedValue(digest, mergedSum) == digest = mergedSum

\* The try block: e1 is how get_basic_information ended.
sync_try(agent_id, e1, info, files) ==
    IF e1 # Ok THEN sync_except(e1, e1, "")
    ELSE LET agent_info == info[agent_id]
         IN  IF "group" \notin DOMAIN agent_info
             THEN sync_except(KeyError, e1, "")
             ELSE LET p == agent_group_merged_path(agent_info.group)
                      h == md5(p, files)
                  IN  IF h.e # Ok THEN sync_except(h.e, e1, p)
                      ELSE IF "mergedSum" \notin DOMAIN agent_info
                      THEN sync_except(KeyError, e1, p)
                      ELSE SyncReturn(SyncedValue(h.digest,
                                                  agent_info.mergedSum),
                                      e1, p)

\* get_agents_sync_group(agent_list): every way the call can end.
get_agents_sync_group(agent_list, agents, info, files) ==
    LET agent_id == agent_list[1]
    IN  IF IsManager(agent_id)
        THEN { SyncRaise(WazuhError(ReservedIdCode), NotCalled, "") }
        ELSE { sync_try(agent_id, e1, info, files)
               : e1 \in Agent_load_info_from_db(agent_id, agents) }

\* One call of get_agents_sync_group from entry to return or raise; the
\* store and the files are read, never written.
Call_get_agents_sync_group ==
    /\ Len(calls) < MaxCalls
    /\ \E l \in SyncLists :
         \E r \in get_agents_sync_group(l, store0.agents, store0.info,
                                        store0.files) :
            /\ op' = "get_agents_sync_group"
            /\ targets' = l
            /\ pc' = IF r.kind = "return" THEN "returned" ELSE "raised"
            /\ raised' = r.exc
            /\ result' = IF r.kind = "return"
                         THEN [returned |-> TRUE, synced |-> r.synced]
                         ELSE NoResult
            /\ calls' = Append(calls, [prim |-> "get_agents_sync_group",
                                       id |-> l[1], out |-> r])
            /\ UNCHANGED <<group_id, flag, i, affected_items, failed_items,
                           affected_agents, snapshot, agentsDB, groupsDB,
                           agentGroups, store0>>

NextSync == Call_get_agents_sync_group

SpecSync == InitSync /\ [][NextSync]_vars

\* ------------------------------------------------------------ properties

Returned == pc = "returned"

\* The ids of a list of failed entries, as a set and in their order.
FailedIds(fl) == {fl[k].id : k \in 1..Len(fl)}
FailedIdSeq(fl) == [k \in 1..Len(fl) |-> fl[k].id]

\* The codes the failed entries give target t.
FailedCodes(fl, t) == {fl[k].code : k \in {n \in 1..Len(fl) : fl[n].id = t}}

\* How many elements of s satisfy Test.
Count(s, Test(_)) == Cardinality({k \in 1..Len(s) : Test(s[k])})

RECURSIVE IsSubsequence(_, _)
\* s can be got from t by deleting elements, the order kept.
IsSubsequence(s, t) ==
    IF s = <<>> THEN TRUE
    ELSE IF t = <<>> THEN FALSE
    ELSE IF Head(s) = Head(t) THEN IsSubsequence(Tail(s), Tail(t))
    ELSE IsSubsequence(s, Tail(t))

\* The primitives invoked on target t under the name prim.
CallsOf(prim, t) == {k \in 1..Len(calls) : calls[k].prim = prim /\ calls[k].id = t}

\* C1: coverage. When a bulk operation returns, the ids of affected_items
\* united with the ids of failed_items are exactly the input targets: no
\* target is dropped and no foreign id appears.
C1_Coverage ==
    Returned =>
        Range(result.affected_items) \cup FailedIds(result.failed_items)
            = Range(targets)

\* A three-target delete_agents that returned with some deleted, some failed.
C1_Witness ==
    /\ Returned
    /\ op = "delete_agents"
    /\ Len(targets) = 3
    /\ result.affected_items # <<>>
    /\ result.failed_items # <<>>

\* C2: disjointness, as claimed. No target id is both in affected_items and in
\* failed_items of a returned result.
C2_Disjoint ==
    Returned =>
        Range(result.affected_items) \cap FailedIds(result.failed_items) = {}

\* C3: order preservation. affected_items and the ids of failed_items are each
\* a subsequence of the input list, in input order.
C3_Order ==
    Returned =>
        /\ IsSubsequence(result.affected_items, targets)
        /\ IsSubsequence(FailedIdSeq(result.failed_items), targets)

\* Input [a, b, c], neither ascending nor descending, where only b fails.
C3_Witness ==
    /\ Returned
    /\ targets = <<"999", "000", "1000">>
    /\ result.affected_items = <<"999", "1000">>
    /\ FailedIdSeq(result.failed_items) = <<"000">>

\* C4: containment of unexpected failures, as claimed. A primitive's exception
\* outside the WazuhException hierarchy becomes a failed entry of its target
\* under the internal-error code and the loop goes on: nothing leaves a bulk
\* operation once its loop has begun.
C4_Contained ==
    /\ pc = "raised" => i = 0
    /\ \A k \in 1..Len(calls) :
          calls[k].out = RawException =>
              \E n \in 1..Len(failed_items) :
                  /\ failed_items[n].id = calls[k].id
                  /\ failed_items[n].code = WazuhInternalError(1000).code

\* C5: reserved identifier, as claimed. "000" among the targets of
\* delete_agents, restart_agents or remove_agents_from_group ends in
\* failed_items with code 1703 and never in affected_items.
C5_Reserved ==
    ( /\ Returned
      /\ op \in {"delete_agents", "restart_agents", "remove_agents_from_group"}
      /\ "000" \in Range(targets) )
    => /\ "000" \notin Range(result.affected_items)
       /\ FailedCodes(result.failed_items, "000") = {ReservedIdCode}

\* The messages of each tier, over all six operations.
AllSucceededMessages == {str_priority(o)[1] : o \in
    {"restart_agents", "delete_agents", "delete_groups",
     "assign_agents_to_group", "remove_agents_from_group",
     "remove_agents_from_all_groups"}}

\* The three conditions that select a summary tier.
TierHolds(t, res) ==
    CASE t = 1 -> res.failed_items = <<>>
      [] t = 2 -> res.failed_items # <<>> /\ res.affected_items # <<>>
      [] t = 3 -> res.affected_items = <<>>

\* C6: summary tier selection. On every returned result exactly one of the
\* three conditions holds (failed empty; both non-empty; affected empty), and
\* the result carries three distinct messages, the first the operation's
\* "all succeeded" message.
C6_OneTier ==
    Returned =>
        /\ Cardinality({t \in 1..3 : TierHolds(t, result)}) = 1
        /\ Len(result.str_priority) = 3
        /\ Cardinality(Range(result.str_priority)) = 3
        /\ result.str_priority[1] \in AllSucceededMessages

\* Three targets of which one fails: the partial tier; also reached: none
\* fails, all fail.
C6_Witness ==
    /\ Returned
    /\ Len(targets) = 3
    /\ Len(result.failed_items) = 1
    /\ Len(result.affected_items) = 2
    /\ TierHolds(2, result)

\* The targets of delete_agents other than "000" that the eligibility query
\* made before the loop did not return.
Ineligible == (Range(targets) \ {"000"}) \ snapshot

\* C7: delete eligibility, as claimed. Every target other than "000" outside
\* the eligible subset ends in failed_items with code 1731 and no other code,
\* and remove is never invoked on it.
C7_OnlyNotEligible ==
    (Returned /\ op = "delete_agents") =>
        \A t \in Ineligible :
            /\ FailedCodes(result.failed_items, t) = {NotEligibleCode}
            /\ CallsOf("remove", t) = {}

\* C7, amended. The record is loaded before the eligibility test, so a target
\* outside the eligible subset is never removed and never affected, every
\* occurrence of it is a failed entry, and the entry's code is 1731 when the
\* load succeeded and the load's own error code when the load failed.
C7_LoadThenNotEligible ==
    (Returned /\ op = "delete_agents") =>
        \A t \in Ineligible :
            LET loads == CallsOf("load_info_from_db", t)
                okLoads == {k \in loads : calls[k].out = Ok}
                IsT(f) == f.id = t
                IsT1731(f) == f.id = t /\ f.code = NotEligibleCode
                IsTarget(x) == x = t
            IN  /\ CallsOf("remove", t) = {}
                /\ t \notin Range(result.affected_items)
                /\ Count(result.failed_items, IsT) = Count(targets, IsTarget)
                /\ Cardinality(loads) = Count(targets, IsTarget)
                /\ Count(result.failed_items, IsT1731) = Cardinality(okLoads)
                /\ FailedCodes(result.failed_items, t) \subseteq
                       {NotEligibleCode} \cup
                       {calls[k].out.code : k \in loads \ okLoads}

\* A delete_agents that returned with one target refused as not eligible and
\* another, outside the eligible subset too, refused by its load.
C7_Witness ==
    /\ Returned
    /\ op = "delete_agents"
    /\ \E t \in Ineligible :
           FailedCodes(result.failed_items, t) = {NotEligibleCode}
    /\ \E t \in Ineligible :
           /\ NotEligibleCode \notin FailedCodes(result.failed_items, t)
           /\ FailedCodes(result.failed_items, t) # {}

\* The calls that check the group before their loop.
GroupChecked == op \in {"assign_agents_to_group", "remove_agents_from_group"}

\* C8: group-existence pre-check. A call of remove_agents_from_group or
\* assign_agents_to_group on a group that does not exist raises 1710 before
\* any target is taken: no result, no failed entry, no primitive invoked, no
\* membership changed.
C8_GroupPrecheck ==
    (GroupChecked /\ group_id \notin store0.groups) =>
        /\ pc = "raised"
        /\ raised = WazuhError(GroupNotFoundCode)
        /\ result = NoResult
        /\ failed_items = <<>>
        /\ affected_items = <<>>
        /\ i = 0
        /\ calls = <<>>
        /\ agentGroups = store0.membership

\* remove_agents_from_group on a missing group, with targets that are agents
\* of the store.
C8_Witness ==
    /\ op = "remove_agents_from_group"
    /\ group_id \notin store0.groups
    /\ pc = "raised"
    /\ Len(targets) = 3
    /\ Range(targets) \subseteq store0.agents

\* The targets that were not recorded members of the group when the call
\* was made.
NonMembers ==
    {t \in Range(targets) :
        t \notin store0.agents \/ group_id \notin Range(store0.membership[t])}

\* C9: membership check of remove_agents_from_group. unset is invoked only on
\* targets the membership query returned; a target that was not a recorded
\* member of the group is never handed to unset, is never affected, and on
\* return has code 1734, or 1703 when it is "000".
C9_MembershipCheck ==
    (op = "remove_agents_from_group" /\ pc # "raised") =>
        /\ snapshot = Range(targets) \ NonMembers
        /\ \A k \in 1..Len(calls) :
              calls[k].prim = "unset_single_group_agent"
                  => calls[k].id \in snapshot
        /\ \A t \in NonMembers :
              /\ CallsOf("unset_single_group_agent", t) = {}
              /\ t \notin Range(affected_items)
              /\ Returned =>
                    FailedCodes(result.failed_items, t) =
                        {IF t = "000" THEN ReservedIdCode ELSE NotMemberCode}

\* A member removed, a non-member refused with 1734, "000" refused with 1703.
C9_Witness ==
    /\ Returned
    /\ op = "remove_agents_from_group"
    /\ "000" \in NonMembers
    /\ \E t \in NonMembers \ {"000"} :
           FailedCodes(result.failed_items, t) = {NotMemberCode}
    /\ result.affected_items # <<>>

\* C10: group-deletion cascade. After delete_groups returns, no registered
\* agent lists a deleted group, none has an empty membership list, an agent
\* all of whose groups were deleted has exactly ["default"], and every agent
\* whose membership changed is in affected_agents.
C10_Cascade ==
    (Returned /\ op = "delete_groups") =>
        LET deleted == Range(result.affected_items)
        IN  \A a \in agentsDB :
                /\ Range(agentGroups[a]) \cap deleted = {}
                /\ agentGroups[a] # <<>>
                /\ Range(store0.membership[a]) \subseteq deleted
                       => agentGroups[a] = <<"default">>
                /\ agentGroups[a] # store0.membership[a]
                       => a \in Range(result.affected_agents)

\* The sole group of an agent deleted: the agent ends in ["default"] and is
\* listed in affected_agents; another agent keeps its other group.
C10_Witness ==
    /\ Returned
    /\ op = "delete_groups"
    /\ \E a \in agentsDB :
           /\ store0.membership[a] = <<"g1">>
           /\ agentGroups[a] = <<"default">>
           /\ a \in Range(result.affected_agents)
    /\ \E a \in agentsDB :
           /\ Len(store0.membership[a]) = 2
           /\ Len(agentGroups[a]) = 1
           /\ agentGroups[a] # <<"default">>

\* The groups delete_single_group deleted during the call.
DeletedGroups ==
    {calls[k].id : k \in {n \in 1..Len(calls) :
        calls[n].prim = "delete_single_group" /\ calls[n].out = Ok}}

\* The agents that listed a deleted group when the call was made: the union
\* of what the successful deletions touched.
TouchedAgents ==
    {a \in store0.agents : Range(store0.membership[a]) \cap DeletedGroups # {}}

\* C11: affected_agents of delete_groups is exactly the union of the agents
\* touched by the deletions that succeeded (none from a deletion that failed
\* alone), without duplicates, ascending by the numeric value of the id.
C11_AffectedAgents ==
    (Returned /\ op = "delete_groups") =>
        LET aa == result.affected_agents
        IN  /\ Range(aa) = TouchedAgents
            /\ \A k \in 1..(Len(aa) - 1) : IntOf(aa[k]) < IntOf(aa[k + 1])

\* Two deleted groups that share agent "999", a third group whose deletion
\* failed, and "999" before "1000" in the result although "1000" < "999" as
\* text.
C11_Witness ==
    /\ Returned
    /\ op = "delete_groups"
    /\ DeletedGroups = {"g1", "g2"}
    /\ store0.membership["999"] = <<"g2", "g1">>
    /\ result.failed_items # <<>>
    /\ result.affected_agents = <<"999", "1000">>

\* The six bulk operations.
BulkOps ==
    {"restart_agents", "delete_agents", "delete_groups",
     "assign_agents_to_group", "remove_agents_from_group",
     "remove_agents_from_all_groups"}

\* The primitives a loop invokes.
Primitives == {calls[k].prim : k \in 1..Len(calls)}

\* C15: exactly-once processing, as claimed. Once the loop of a bulk
\* operation has begun, the call ends only after every target was taken: a
\* failure on one target never ends the call before the targets after it,
\* no primitive is invoked on a target more often than the target occurs in
\* the input, and what was done to earlier targets stays done.
C15_ExactlyOnce ==
    (op \in BulkOps /\ pc \in {"returned", "raised"} /\ i > 0) =>
        /\ i = Len(targets)
        /\ \A p \in Primitives : \A t \in Range(targets) :
              LET IsTarget(x) == x = t
              IN  Cardinality(CallsOf(p, t)) <= Count(targets, IsTarget)
        /\ op = "delete_agents" =>
              \A t \in Range(affected_items) : t \notin agentsDB
        /\ op = "remove_agents_from_all_groups" =>
              \A t \in Range(affected_items) : agentGroups[t] = <<"default">>

\* ------------------------------------------------------- sync verifier

\* The calls of get_agents_sync_group made so far.
SyncCalls ==
    {k \in 1..Len(calls) : calls[k].prim = "get_agents_sync_group"}

\* The record of agent a holds both the membership list and the checksum.
Complete(a) ==
    /\ a \in DOMAIN store0.info
    /\ {"group", "mergedSum"} \subseteq DOMAIN store0.info[a]

\* The call opened a merged file that is absent or not readable.
ArtifactUnavailable(c) ==
    /\ c.out.path # ""
    /\ store0.files[c.out.path].kind # "file"

\* C12: for an agent other than "000" whose record loaded, a resolved merged
\* file that is absent or unreadable makes get_agents_sync_group return
\* synced = false and raise nothing, whatever checksum the agent reported.
C12_SoftFail ==
    \A k \in SyncCalls :
        LET c == calls[k]
        IN  (c.id # "000" /\ c.out.load = Ok /\ ArtifactUnavailable(c)) =>
                /\ c.out.kind = "return"
                /\ c.out.synced = FALSE
                /\ c.out.exc = Ok

\* The agent reported "abc123", its merged file is absent, and the call
\* returned synced = false.
C12_Witness ==
    /\ pc = "returned"
    /\ result.synced = FALSE
    /\ \E k \in SyncCalls :
          /\ k = Len(calls)
          /\ calls[k].id = "999"
          /\ calls[k].out.load = Ok
          /\ Complete("999")
          /\ store0.info["999"].mergedSum = "abc123"
          /\ calls[k].out.path # ""
          /\ store0.files[calls[k].out.path].kind = "absent"

\* C13: when the agent's record is missing, incomplete, or the store fails
\* during the load, get_agents_sync_group raises an internal error; it does
\* not return a synced value and does not raise a domain error.
C13_HardFail ==
    \A k \in SyncCalls :
        LET c == calls[k]
        IN  (c.id # "000" /\ (c.out.load # Ok \/ ~Complete(c.id))) =>
                /\ c.out.kind = "raise"
                /\ c.out.exc.kind = "WazuhInternalError"

\* C14: get_agents_sync_group on "000" raises the reserved-identifier error
\* (1703) without loading the record and without opening any file, whatever
\* the store and the file tree hold.
C14_Reserved ==
    \A k \in SyncCalls :
        LET c == calls[k]
        IN  c.id = "000" =>
                /\ c.out.kind = "raise"
                /\ c.out.exc = WazuhError(1703)
                /\ c.out.load = NotCalled
                /\ c.out.path = ""

\* "000" was asked for while its own record and merged file would have
\* compared equal, and the call raised 1703.
C14_Witness ==
    /\ pc = "raised"
    /\ raised = WazuhError(1703)
    /\ targets[1] = "000"
    /\ store0.files["/var/ossec/etc/shared/g1/merged.mg"].kind = "file"
    /\ store0.files["/var/ossec/etc/shared/g1/merged.mg"].md5
         = store0.info["000"].mergedSum

\* The merged file of a membership list, from the directory layout and the
\* SHA-256 of the comma-joined names in the list's own order.
ExpectedPath(group) ==
    CASE group = <<"g1">> -> "/var/ossec/etc/shared/g1/merged.mg"
      [] group = <<"g1", "g2">> -> "/var/ossec/var/multigroups/2d5e0a32/merged.mg"
      [] group = <<"g2", "g1">> -> "/var/ossec/var/multigroups/d49cece6/merged.mg"

\* The call loaded a complete record and opened a readable merged file.
Compared(c) ==
    /\ c.id # "000"
    /\ c.out.load = Ok
    /\ Complete(c.id)
    /\ c.out.path # ""
    /\ store0.files[c.out.path].kind = "file"

\* C16: for an agent whose record loads and whose artifact is readable the
\* call returns synced = true exactly when the md5 of the resolved file
\* equals the reported checksum; the resolved file is the group's own merged
\* file for a one-group list and the multi-group token's file, computed from
\* the list in its stored order, otherwise; agents with the same ordered
\* list resolve to the same file, and a repeated call gives the same result.
C16_SyncResult ==
    /\ \A k \in SyncCalls :
          LET c == calls[k]
              r == store0.info[c.id]
          IN  Compared(c) =>
                /\ c.out.kind = "return"
                /\ c.out.path = ExpectedPath(r.group)
                /\ c.out.synced = (store0.files[ExpectedPath(r.group)].md5
                                     = r.mergedSum)
    /\ \A j, k \in SyncCalls :
          /\ (Compared(calls[j]) /\ Compared(calls[k])
               /\ store0.info[calls[j].id].group
                    = store0.info[calls[k].id].group)
                => calls[j].out.path = calls[k].out.path
          /\ (Compared(calls[j]) /\ calls[j].id = calls[k].id
               /\ calls[k].out.load = Ok)
                => calls[j].out = calls[k].out

\* "999" with <<"g2", "g1">> was found in sync against the file of its own
\* token, which is not the file of <<"g1", "g2">> that "1000" was compared
\* with.
C16_Witness ==
    /\ Len(calls) = 2
    /\ calls[1].id = "999" /\ calls[2].id = "1000"
    /\ Compared(calls[1]) /\ Compared(calls[2])
    /\ store0.info["999"].group = <<"g2", "g1">>
    /\ calls[1].out.synced = TRUE
    /\ calls[2].out.synced = FALSE
    /\ calls[1].out.path # calls[2].out.path

====
